---- MODULE Spec2Model ----
(***************************************************************************)
(* Humanitarian aid distribution: the allocation validator and fallback    *)
(* allocator, the schedule generator, the delivery simulator, the needs    *)
(* ranking, the fallback route planner, vehicle loading, the fallback      *)
(* analyzer, the trend tracker and the cycle orchestrator, as state        *)
(* machines.                                                               *)
(*                                                                         *)
(* Quantities are integers.  Python's int(x) truncates toward zero; the    *)
(* float products the code truncates are modelled by exact rational        *)
(* arithmetic, corrected where IEEE-754 double rounding lands below an     *)
(* exact integer (FloatShort).                                             *)
(***************************************************************************)
EXTENDS Integers, Sequences, FiniteSets, TLC

VARIABLES
    a_pool,        \* available_resources handed to the allocation agent
    a_proposals,   \* allocations parsed from the advisory response
    a_zones,       \* target_zones handed to the fallback allocator
    a_result,      \* the list the allocation agent returns
    a_op,          \* which allocator produced a_result
    s_plan,        \* delivery_plan handed to the schedule generator
    s_schedule,    \* the schedule it returns
    s_op,          \* "none" until the schedule is generated
    m_allocations, \* allocations handed to the delivery simulator
    m_outcomes,    \* outcomes appended so far by its loop
    m_draws,       \* base_success drawn in each iteration so far
    n_count,       \* number of rows of zones_df handed to the needs agent
    n_assessments, \* assessments appended so far, in zones_df order
    n_sorted,      \* the list assess_all_zones returns
    n_op,          \* "assessing", then "sorted" or "raised"
    num_zones,     \* rows of simulator.zones (zone ids 1..num_zones)
    zones_generated, \* calls of simulator.generate_zones so far
    pools_drawn,   \* calls of simulator.get_available_resources so far
    pending,       \* direct run_distribution_cycle calls the caller still
                   \* makes before it goes on as main does
    max_zones_to_serve, \* MAX_ZONES_PER_CYCLE handed down by main
    num_cycles,    \* NUM_CYCLES of main
    cycle,         \* cycle_number of the running cycle
    pc,            \* the phase about to run, or where main stands
    cycle_history, \* orchestrator.cycle_history
    all_results,   \* all_results of run_multiple_cycles
    trends,        \* last result of track_historical_performance
    resources,     \* locals of run_distribution_cycle ...
    prioritized_zones,
    allocations,
    delivery_plan,
    schedule,
    actual_outcomes,
    analysis,
    raised,        \* the exception propagating to main, if any
    exit_code,     \* what main returned
    entered,       \* phases entered in the running cycle, in order
    returned,      \* phases that returned in the running cycle, in order
    resp,          \* advisory responses each phase received this cycle
    path,          \* which branch produced each phase's result this cycle
    history_before, \* cycle_history when the running cycle started
    cycles_started, \* calls of run_distribution_cycle so far
    t_current,     \* current_cycle handed to the trend tracker
    t_previous,    \* previous_cycles handed to it
    t_result,      \* the trend analysis it returns
    t_op,          \* "none" until it has returned
    r_allocations, \* allocations handed to the fallback route planner
    r_zone_logistics, \* zone_logistics handed to it
    r_plan,        \* the route plan it returns
    r_op,          \* "none" until it has returned
    f_outcomes,    \* actual_outcomes handed to the fallback analyzer
    f_analysis,    \* the analysis it returns
    f_op,          \* "none", then "analyzed" or "raised"
    v_route,       \* route handed to optimize_vehicle_loading
    v_allocations, \* allocations handed to it
    v_loading,     \* the loading plan it returns
    v_op           \* "none" until it has returned

allocVars == <<a_pool, a_proposals, a_zones, a_result, a_op>>

schedVars == <<s_plan, s_schedule, s_op>>

simVars == <<m_allocations, m_outcomes, m_draws>>

assessVars == <<n_count, n_assessments, n_sorted, n_op>>

localVars ==
    <<resources, prioritized_zones, allocations, delivery_plan, schedule,
      actual_outcomes, analysis>>

logVars == <<entered, returned, resp, path, history_before, cycles_started>>

orchVars ==
    <<num_zones, zones_generated, pools_drawn, pending,
      max_zones_to_serve, num_cycles, cycle, pc, cycle_history,
      all_results, trends, localVars, raised, exit_code, logVars>>

trendVars == <<t_current, t_previous, t_result, t_op>>

routeVars == <<r_allocations, r_zone_logistics, r_plan, r_op>>

analysisVars == <<f_outcomes, f_analysis, f_op>>

loadVars == <<v_route, v_allocations, v_loading, v_op>>

agentVars == <<trendVars, routeVars, analysisVars, loadVars>>

vars == <<allocVars, schedVars, simVars, assessVars, orchVars, agentVars>>

----------------------------------------------------------------------------
(* Bounds *)

MaxZones == 3

----------------------------------------------------------------------------
(* Resource pool: settlement_data.py get_available_resources *)

Kinds ==
    {"food_packages", "water_liters", "medical_kits", "shelter_materials",
     "blankets", "hygiene_kits"}

Capacities == {"vehicles_available", "personnel_available", "budget_usd"}

PoolKeys == Kinds \cup Capacities

\* quantities a pool kind takes in the model
PoolQtys == {0, 2, 7, 25}

\* the pool returned by get_available_resources: every key present
MakePool(a, b) ==
    [k \in PoolKeys |->
        IF k \in {"food_packages", "medical_kits", "blankets"} THEN a
        ELSE IF k \in Kinds THEN b
        ELSE 5]

Pools == {MakePool(a, b) : a \in PoolQtys, b \in PoolQtys}

----------------------------------------------------------------------------
(* Arithmetic *)

\* Python int() of the quotient n / d, d > 0: truncation toward zero
Trunc(n, d) == IF n >= 0 THEN n \div d ELSE -((-n) \div d)

RECURSIVE SumTo(_, _)
\* sum(range(1, n + 1))
SumTo(lo, hi) == IF lo > hi THEN 0 ELSE hi + SumTo(lo, hi - 1)

----------------------------------------------------------------------------
(* ResourceAllocationAgent._validate_allocations *)

\* An allocation is [zone_id, priority_score, qty], qty the function from
\* the resource keys present in the dict to their quantities.

RECURSIVE SumQtyUpTo(_, _, _)
SumQtyUpTo(allocs, k, n) ==
    IF n = 0 THEN 0
    ELSE SumQtyUpTo(allocs, k, n - 1)
         + (IF k \in DOMAIN allocs[n].qty THEN allocs[n].qty[k] ELSE 0)

\* totals.get(k, 0) after the first loop
SumQty(allocs, k) == SumQtyUpTo(allocs, k, Len(allocs))

\* totals that also count keys named like operational capacities
TotalsKeys_CountsCapacities(allocs, pool) ==
    {k \in DOMAIN pool :
        \E i \in 1..Len(allocs) : k \in DOMAIN allocs[i].qty}

\* the keys of totals: pool keys, not operational capacities, present in
\* at least one allocation
TotalsKeys(allocs, pool) ==
    {k \in (DOMAIN pool) \ Capacities :
        \E i \in 1..Len(allocs) : k \in DOMAIN allocs[i].qty}

\* <<q, available, total>> where q * (available / total) is an exact integer
\* in the rationals and lands just below it in IEEE-754 doubles
\* (22 * (30 / 44) = 14.99...), for the quantities drawn
ScaleShort == {<<22, 30, 44>>}

\* int(alloc[resource_type] * scale_factor), scale_factor = available / total
ScaledQty(q, available, total) ==
    Trunc(q * available, total)
    - (IF <<q, available, total>> \in ScaleShort THEN 1 ELSE 0)

\* a validator that rescales every kind of the proposals as soon as one kind
\* is overallocated
validate_allocations_ScalesEveryKind(allocs, pool) ==
    LET keys == TotalsKeys(allocs, pool)
        any  == \E k \in keys : SumQty(allocs, k) > pool[k]
        over == {k \in keys : any /\ SumQty(allocs, k) > 0}
    IN  [i \in 1..Len(allocs) |->
            [allocs[i] EXCEPT !.qty =
                [k \in DOMAIN @ |->
                    IF k \in over
                    THEN ScaledQty(@[k], pool[k], SumQty(allocs, k))
                    ELSE @[k]]]]

validate_allocations(allocs, pool) ==
    LET over == {k \in TotalsKeys(allocs, pool) : SumQty(allocs, k) > pool[k]}
    IN  [i \in 1..Len(allocs) |->
            [allocs[i] EXCEPT !.qty =
                [k \in DOMAIN @ |->
                    IF k \in over
                    THEN ScaledQty(@[k], pool[k], SumQty(allocs, k))
                    ELSE @[k]]]]

----------------------------------------------------------------------------
(* ResourceAllocationAgent._create_fallback_allocation *)

FallbackKinds ==
    {"food_packages", "water_liters", "medical_kits", "shelter_materials"}

\* <<quantity, zone_count, i>> where the double product
\* quantity * ((zone_count - i) / sum(range(1, zone_count + 1))) * 0.9
\* is an exact integer in the rationals and lands just below it in IEEE-754
\* doubles (25 * (2/3) * 0.9 = 14.99...), for the quantities of PoolQtys
FloatShort == {<<25, 2, 0>>}

\* a share that grows with the rank instead of shrinking
FallbackQty_AscendingRank(quantity, zone_count, i) ==
    Trunc(9 * quantity * (i + 1), 10 * SumTo(1, zone_count))

FallbackQty_NoReserve(quantity, zone_count, i) ==
    Trunc(quantity * (zone_count - i), SumTo(1, zone_count))

\* int(available_resources.get(kind, 0) * proportion * 0.9)
FallbackQty(quantity, zone_count, i) ==
    Trunc(9 * quantity * (zone_count - i), 10 * SumTo(1, zone_count))
    - (IF <<quantity, zone_count, i>> \in FloatShort THEN 1 ELSE 0)

\* i is the 0-based rank of enumerate(zones)
create_fallback_allocation(zones, pool) ==
    [j \in 1..Len(zones) |->
        [zone_id |-> zones[j].zone_id,
         priority_score |-> zones[j].priority_score,
         qty |-> [k \in FallbackKinds |->
                    FallbackQty(IF k \in DOMAIN pool THEN pool[k] ELSE 0,
                                Len(zones), j - 1)]]]

----------------------------------------------------------------------------
(* Inputs of the allocation agent *)

\* quantities an advisory proposal gives a zone for one kind
Qtys == {-1, 2, 5}

ProposedKeySets == {{"food_packages"}, {"food_packages", "water_liters"}}

ProposedQtyFns == UNION {[D -> Qtys] : D \in ProposedKeySets}

ProposalLists ==
    UNION {
        {[i \in 1..n |-> [zone_id |-> i, priority_score |-> 50, qty |-> f[i]]] :
            f \in [1..n -> ProposedQtyFns]} : n \in 0..MaxZones}

\* ranked zones: zone j has priority rank j
ZoneLists ==
    {[j \in 1..n |-> [zone_id |-> j, priority_score |-> 100 - 10 * j]] :
        n \in 0..MaxZones}

\* proposals of one kind with larger quantities
FoodProposals(qs) ==
    [i \in 1..Len(qs) |->
        [zone_id |-> i, priority_score |-> 50,
         qty |-> [k \in {"food_packages"} |-> qs[i]]]]

\* proposals that also carry a key named like an operational capacity
BudgetProposals(qs, budgets) ==
    [i \in 1..Len(qs) |->
        [zone_id |-> i, priority_score |-> 50,
         qty |-> [k \in {"food_packages", "budget_usd"} |->
                    IF k = "food_packages" THEN qs[i] ELSE budgets[i]]]]

\* two zones asking 700 each of 1000, and 22 each of 30; two zones asking
\* food and a budget_usd entry, over and within the pool's values
ValidationScenarios ==
    {[pool |-> MakePool(1000, 0), proposals |-> FoodProposals(<<700, 700>>)],
     [pool |-> MakePool(30, 0), proposals |-> FoodProposals(<<22, 22>>)]}
    \cup {[pool |-> MakePool(7, 7), proposals |-> BudgetProposals(qs, bs)] :
             qs \in {<<5, 5>>, <<2, 5>>}, bs \in {<<5, 5>>, <<2, 2>>}}

AllocInit ==
    /\ \/ a_pool \in Pools /\ a_proposals \in ProposalLists /\ a_zones = <<>>
       \/ a_pool \in Pools /\ a_proposals = <<>> /\ a_zones \in ZoneLists
       \/ \E sc \in ValidationScenarios :
             a_pool = sc.pool /\ a_proposals = sc.proposals /\ a_zones = <<>>
    /\ a_result = <<>>
    /\ a_op = "none"

Validate ==
    /\ a_op = "none"
    /\ a_result' = validate_allocations(a_proposals, a_pool)
    /\ a_op' = "validate"
    /\ UNCHANGED <<a_pool, a_proposals, a_zones>>
    /\ UNCHANGED <<schedVars, simVars, assessVars, orchVars, agentVars>>

Fallback ==
    /\ a_op = "none"
    /\ a_result' = create_fallback_allocation(a_zones, a_pool)
    /\ a_op' = "fallback"
    /\ UNCHANGED <<a_pool, a_proposals, a_zones>>
    /\ UNCHANGED <<schedVars, simVars, assessVars, orchVars, agentVars>>

AllocNext == Validate \/ Fallback

----------------------------------------------------------------------------
(* LogisticsCoordinatorAgent.generate_delivery_schedule *)

\* The fractional-hour clock only ever holds multiples of 0.5 (8.0, plus
\* 1.0 per zone, plus 0.5 for a departure or a buffer), all exact in
\* doubles; the model counts half hours.

MaxRoutes == 5

MaxRouteLen == 3

\* current_time = 8.0
StartHalfHours == 16

FormatTime_WrapsAtMidnight(t) == [hh |-> (t \div 2) % 24, mm |-> (t % 2) * 30]

\* f"{int(t):02d}:{int((t % 1) * 60):02d}": the hour is never wrapped
FormatTime(t) == [hh |-> t \div 2, mm |-> (t % 2) * 30]

\* minutes since midnight of a formatted time
Minutes(hm) == hm.hh * 60 + hm.mm

DepartureTime_LongUnload(zone_time) == zone_time + 3

\* zone_time + 0.5
DepartureTime(zone_time) == zone_time + 1

\* time_offset after i zones: 1.0 per zone
TimeOffset(i) == 2 * i

RouteSchedule(route, current_time) ==
    [route_id |-> route.route_id,
     start_time |-> FormatTime(current_time),
     zones |->
        [i \in 1..Len(route.zones_sequence) |->
            LET zone_time == current_time + TimeOffset(i - 1)
            IN  [sequence |-> i,
                 zone_id |-> route.zones_sequence[i],
                 arrival_time |-> FormatTime(zone_time),
                 unloading_duration_minutes |-> 30,
                 departure_time |-> FormatTime(DepartureTime(zone_time))]],
     end_time |->
        FormatTime(current_time + TimeOffset(Len(route.zones_sequence)))]

RECURSIVE ScheduleFrom(_, _, _)
\* the loop over delivery_plan['routes'] from route r on
ScheduleFrom(routes, r, current_time) ==
    IF r > Len(routes) THEN <<>>
    ELSE <<RouteSchedule(routes[r], current_time)>>
         \o ScheduleFrom(routes, r + 1,
                current_time + TimeOffset(Len(routes[r].zones_sequence)) + 1)

generate_delivery_schedule(plan) ==
    ScheduleFrom(plan.routes, 1, StartHalfHours)

\* route plans of either planner: route r visits zones 10r+1, 10r+2, ...
RoutePlans ==
    UNION {
        {[routes |->
            [r \in 1..n |->
                [route_id |-> r,
                 zones_sequence |-> [i \in 1..lens[r] |-> 10 * r + i]]]] :
            lens \in [1..n -> 0..MaxRouteLen]} : n \in 0..MaxRoutes}

SchedInit ==
    /\ s_plan \in RoutePlans
    /\ s_schedule = <<>>
    /\ s_op = "none"

GenerateSchedule ==
    /\ s_op = "none"
    /\ s_schedule' = generate_delivery_schedule(s_plan)
    /\ s_op' = "scheduled"
    /\ UNCHANGED s_plan
    /\ UNCHANGED <<allocVars, simVars, assessVars, orchVars, agentVars>>

SchedNext == GenerateSchedule

----------------------------------------------------------------------------
(* HumanitarianAIOrchestrator._simulate_delivery_execution *)

Challenges ==
    {"none", "weather_delay", "road_conditions", "security_concern",
     "vehicle_breakdown"}

\* multipliers of road_conditions and security_concern exchanged
Multiplier_SwapsRoadAndSecurity(challenge) ==
    CASE challenge = "weather_delay" -> 95
      [] challenge = "road_conditions" -> 80
      [] challenge = "security_concern" -> 85
      [] challenge = "vehicle_breakdown" -> 75
      [] OTHER -> 100

\* the challenge multiplier, in hundredths
Multiplier(challenge) ==
    CASE challenge = "weather_delay" -> 95
      [] challenge = "road_conditions" -> 85
      [] challenge = "security_concern" -> 80
      [] challenge = "vehicle_breakdown" -> 75
      [] OTHER -> 100

\* draws of np.random.uniform(0.85, 1.0), in ten-thousandths; none of them
\* makes success_rate * 100 an exact decimal tie x.x5, where the binary
\* expansion of the double, not the decimal, decides round()
BaseDraws == {8501, 8823, 9496, 9999}

\* round(n / d, 0) for n >= 0, d > 0: to nearest, exact ties to even
RoundNearest(n, d) ==
    LET q == n \div d
        r == n % d
    IN  IF 2 * r > d \/ (2 * r = d /\ q % 2 = 1) THEN q + 1 ELSE q

\* success_rate, in millionths
SuccessRate(base_success, challenge) == base_success * Multiplier(challenge)

\* round(success_rate * 100, 1), in tenths of a percent
DeliveredPercentage(success_rate) == RoundNearest(success_rate, 1000)

\* 'complete' if success_rate >= 0.95 else 'partial' if success_rate >= 0.75
\* else 'incomplete'
DeliveryStatus(success_rate) ==
    IF success_rate >= 950000 THEN "complete"
    ELSE IF success_rate >= 750000 THEN "partial"
    ELSE "incomplete"

Outcome(alloc, base_success, challenge) ==
    LET success_rate == SuccessRate(base_success, challenge)
    IN  [zone_id |-> alloc.zone_id,
         planned_delivery |-> alloc.qty,
         delivered_percentage |-> DeliveredPercentage(success_rate),
         challenges |-> challenge,
         delivery_status |-> DeliveryStatus(success_rate)]

\* allocations of n zones, as the fallback allocator returns them
SimAllocations(n) ==
    create_fallback_allocation(
        [j \in 1..n |-> [zone_id |-> j, priority_score |-> 100 - 10 * j]],
        MakePool(25, 7))

SimInit ==
    /\ m_allocations \in {SimAllocations(n) : n \in 0..MaxZones}
    /\ m_outcomes = <<>>
    /\ m_draws = <<>>

\* one iteration of the loop over allocations
SimulateZone ==
    /\ Len(m_outcomes) < Len(m_allocations)
    /\ \E base_success \in BaseDraws, challenge \in Challenges :
          /\ m_outcomes' =
                Append(m_outcomes,
                       Outcome(m_allocations[Len(m_outcomes) + 1],
                               base_success, challenge))
          /\ m_draws' = Append(m_draws, base_success)
    /\ UNCHANGED m_allocations
    /\ UNCHANGED <<allocVars, schedVars, assessVars, orchVars, agentVars>>

SimNext == SimulateZone

----------------------------------------------------------------------------
(* NeedsAssessmentAgent.assess_zone_priority, assess_all_zones *)

\* priority scores the advisory service returns
Scores == {40, 50, 80}

DefaultReasoning == "Default assessment due to processing error"

\* the result of json.loads with zone_id filled in
AdvisoryAssessment(zone_id, score) ==
    [zone_id |-> zone_id, priority_score |-> score, reasoning |-> "advisory"]

\* the except json.JSONDecodeError branch
DefaultAssessment(zone_id) ==
    [zone_id |-> zone_id, priority_score |-> 50,
     reasoning |-> DefaultReasoning]

\* sorted(..., reverse=True) keeps equal keys in their original order: x goes
\* behind every element whose score is at least its own
InsertPos_BeforeEqual(sorted, x) ==
    Cardinality({i \in 1..Len(sorted) :
                    sorted[i].priority_score > x.priority_score})

InsertPos(sorted, x) ==
    Cardinality({i \in 1..Len(sorted) :
                    sorted[i].priority_score >= x.priority_score})

Insert(sorted, x) ==
    LET p == InsertPos(sorted, x)
    IN  SubSeq(sorted, 1, p) \o <<x>> \o SubSeq(sorted, p + 1, Len(sorted))

RECURSIVE SortUpTo(_, _)
SortUpTo(assessments, n) ==
    IF n = 0 THEN <<>>
    ELSE Insert(SortUpTo(assessments, n - 1), assessments[n])

\* sorted(assessments, key=priority_score, reverse=True)
SortedByPriority(assessments) == SortUpTo(assessments, Len(assessments))

AssessInit ==
    /\ n_count \in 0..MaxZones
    /\ n_assessments = <<>>
    /\ n_sorted = <<>>
    /\ n_op = "assessing"

\* one iteration of the loop over zones_df.iterrows(), the advisory
\* response parsed
AssessZoneAdvisory ==
    /\ n_op = "assessing"
    /\ Len(n_assessments) < n_count
    /\ \E score \in Scores :
          n_assessments' =
              Append(n_assessments,
                     AdvisoryAssessment(Len(n_assessments) + 1, score))
    /\ UNCHANGED <<n_count, n_sorted, n_op>>
    /\ UNCHANGED <<allocVars, schedVars, simVars, orchVars, agentVars>>

\* one iteration, the advisory response not parseable as JSON
AssessZoneDefault ==
    /\ n_op = "assessing"
    /\ Len(n_assessments) < n_count
    /\ n_assessments' =
          Append(n_assessments, DefaultAssessment(Len(n_assessments) + 1))
    /\ UNCHANGED <<n_count, n_sorted, n_op>>
    /\ UNCHANGED <<allocVars, schedVars, simVars, orchVars, agentVars>>

\* the sort and the return; sorted_assessments[0] raises IndexError on an
\* empty list
SortAssessments ==
    /\ n_op = "assessing"
    /\ Len(n_assessments) = n_count
    /\ n_sorted' = SortedByPriority(n_assessments)
    /\ n_op' = IF n_count = 0 THEN "raised" ELSE "sorted"
    /\ UNCHANGED <<n_count, n_assessments>>
    /\ UNCHANGED <<allocVars, schedVars, simVars, orchVars, agentVars>>

AssessNext == AssessZoneAdvisory \/ AssessZoneDefault \/ SortAssessments

----------------------------------------------------------------------------
(* Advisory service: LocalLLM.invoke and the json.loads of each agent *)

\* what one round trip to the advisory service yields:
\*   ok           a response that parses and matches the phase's schema
\*   unparseable  content json.loads rejects (json.JSONDecodeError)
\*   badschema    valid JSON of the wrong shape, such as the number 5:
\*                TypeError when the phase subscripts or iterates it
\*   unavailable  connection refused (requests ConnectionError, re-raised)
\*   timeout      no answer within timeout=120 (requests Timeout, re-raised)
ResponseKinds == {"ok", "unparseable", "badschema", "unavailable", "timeout"}

Caught_RequestErrors(kind) == kind \in {"unparseable", "unavailable", "timeout"}

\* except json.JSONDecodeError: the only handler of the four agents
Caught(kind) == kind = "unparseable"

\* which branch a phase takes on a response
Handle(kind) ==
    IF kind = "ok" THEN "advisory"
    ELSE IF Caught(kind) THEN "fallback"
    ELSE "raise"

\* the exception that leaves the phase
Cause(kind) ==
    IF kind \in {"unavailable", "timeout"} THEN "RequestException"
    ELSE "TypeError"

----------------------------------------------------------------------------
(* LogisticsCoordinatorAgent._create_fallback_route_plan *)

zones_per_route == 3

\* range(0, len(allocations), zones_per_route)
NumRoutes(n) == (n + zones_per_route - 1) \div zones_per_route

Min(a, b) == IF a < b THEN a ELSE b

RouteSlice_FromStart(allocs, r) ==
    SubSeq(allocs, 1, Min(zones_per_route, Len(allocs)))

\* allocations[i:i + zones_per_route] of the r-th pass, i = 3 * (r - 1)
RouteSlice(allocs, r) ==
    SubSeq(allocs, zones_per_route * (r - 1) + 1,
           Min(zones_per_route * r, Len(allocs)))

\* distances are in tenths of a kilometre
DefaultDistance == 100

\* next((zl['distance_from_depot'] for zl in zone_logistics
\*       if zl['zone_id'] == zid), 10)
DistanceOf(zone_logistics, zid) ==
    LET hits == {j \in 1..Len(zone_logistics) :
                    zone_logistics[j].zone_id = zid}
    IN  IF hits = {} THEN DefaultDistance
        ELSE zone_logistics[CHOOSE j \in hits : \A h \in hits : j <= h]
                .distance_from_depot

RECURSIVE SumDistance(_, _, _)
\* total_distance over the first n zones of a route
SumDistance(zone_logistics, zone_ids, n) ==
    IF n = 0 THEN 0
    ELSE SumDistance(zone_logistics, zone_ids, n - 1)
         + DistanceOf(zone_logistics, zone_ids[n])

EstimatedTime_NoLoadingTime(total_distance) ==
    RoundNearest(total_distance, 30)

\* round(total_distance / 30 + 2, 1), in tenths of an hour
EstimatedTime(total_distance) == RoundNearest(total_distance + 600, 30)

create_fallback_route_plan(allocs, zone_logistics) ==
    LET routes ==
            [r \in 1..NumRoutes(Len(allocs)) |->
                LET route_zones == RouteSlice(allocs, r)
                    zone_ids == [i \in 1..Len(route_zones) |->
                                    route_zones[i].zone_id]
                    total_distance ==
                        SumDistance(zone_logistics, zone_ids, Len(zone_ids))
                IN  [route_id |-> r,
                     vehicle_number |-> r,
                     zones_sequence |-> zone_ids,
                     total_distance_km |-> total_distance,
                     estimated_time_hours |-> EstimatedTime(total_distance)]]
    IN  [routes |-> routes,
         total_vehicles_needed |-> Len(routes)]

MaxPlanned == 7

\* distance_from_depot values drawn, in tenths of a kilometre
Distances == {50, 100, 200}

\* allocations of zones 1..n in ascending or descending id order
PlannedAllocations ==
    UNION {{[i \in 1..n |-> [zone_id |-> i]],
            [i \in 1..n |-> [zone_id |-> n + 1 - i]]} : n \in 0..MaxPlanned}

\* zone_logistics rows in zones_df order; zone 1 may have no row
LogisticsFor(n) ==
    {[j \in 1..n |-> [zone_id |-> j, distance_from_depot |-> d[j]]] :
        d \in [1..n -> Distances]}
    \cup {[j \in 1..(n - 1) |->
               [zone_id |-> j + 1, distance_from_depot |-> d[j]]] :
             d \in [1..(n - 1) -> {200}]}

RouteInit ==
    /\ r_allocations \in PlannedAllocations
    /\ r_zone_logistics \in LogisticsFor(Len(r_allocations))
    /\ r_plan = [routes |-> <<>>]
    /\ r_op = "none"

CreateFallbackRoutePlan ==
    /\ r_op = "none"
    /\ r_plan' = create_fallback_route_plan(r_allocations, r_zone_logistics)
    /\ r_op' = "planned"
    /\ UNCHANGED <<r_allocations, r_zone_logistics, allocVars, schedVars,
                   simVars, assessVars, orchVars, trendVars, analysisVars,
                   loadVars>>

RouteNext == CreateFallbackRoutePlan

----------------------------------------------------------------------------
(* LogisticsCoordinatorAgent.optimize_vehicle_loading *)

\* weights[resource_type], in half kilograms: 0.5, 1.0, 2.0, 15.0, 1.5, 3.0
Weight(resource_type) ==
    CASE resource_type = "food_packages" -> 1
      [] resource_type = "water_liters" -> 2
      [] resource_type = "medical_kits" -> 4
      [] resource_type = "shelter_materials" -> 30
      [] resource_type = "blankets" -> 3
      [] resource_type = "hygiene_kits" -> 6

RECURSIVE SumOver(_, _)
\* the sum of f over its domain dom
SumOver(f, dom) ==
    IF dom = {} THEN 0
    ELSE LET k == CHOOSE x \in dom : TRUE
         IN  f[k] + SumOver(f, dom \ {k})

\* zone_weight of one allocation, in half kilograms
ZoneWeight(alloc) ==
    LET weighed == DOMAIN alloc.qty \cap Kinds
    IN  SumOver([k \in weighed |-> alloc.qty[k] * Weight(k)], weighed)

RECURSIVE SumZoneWeights(_, _)
SumZoneWeights(allocs, n) ==
    IF n = 0 THEN 0
    ELSE SumZoneWeights(allocs, n - 1) + ZoneWeight(allocs[n])

WeightStatus_OverAtCapacity(total_weight) ==
    IF total_weight < 6000 THEN "OK" ELSE "OVERWEIGHT"

\* 'OK' if total_weight <= 3000 else 'OVERWEIGHT'
WeightStatus(total_weight) ==
    IF total_weight <= 6000 THEN "OK" ELSE "OVERWEIGHT"

optimize_vehicle_loading(route, allocs) ==
    LET route_allocations ==
            SelectSeq(allocs,
                      LAMBDA a : \E i \in 1..Len(route.zones_sequence) :
                                    route.zones_sequence[i] = a.zone_id)
        total_weight == SumZoneWeights(route_allocations,
                                       Len(route_allocations))
    IN  [route_id |-> route.route_id,
         loading_sequence |->
            [i \in 1..Len(route_allocations) |->
                [zone_id |-> route_allocations[i].zone_id,
                 items |-> [k \in DOMAIN route_allocations[i].qty \cap Kinds |->
                               route_allocations[i].qty[k]],
                 total_weight_kg |-> ZoneWeight(route_allocations[i])]],
         total_weight_kg |-> total_weight,
         weight_status |-> WeightStatus(total_weight)]

MaxLoadZones == 3

\* the quantities of one allocation: 1000 kg, 2000 kg or 4.5 kg
LoadQtys ==
    {[k \in {"food_packages", "water_liters"} |->
         IF k = "food_packages" THEN 1000 ELSE 500],
     [k \in {"shelter_materials", "medical_kits"} |->
         IF k = "shelter_materials" THEN 100 ELSE 250],
     [k \in {"blankets", "hygiene_kits"} |-> 1]}

LoadAllocations ==
    UNION {{[i \in 1..n |->
                [zone_id |-> i, priority_score |-> 50, qty |-> q[i]]] :
               q \in [1..n -> LoadQtys]} : n \in 0..MaxLoadZones}

\* routes through an ascending selection of the zones 1..n+1; zone n+1 has
\* no allocation
LoadRoutes(n) ==
    {[route_id |-> 1,
      zones_sequence |->
         SelectSeq([i \in 1..(n + 1) |-> i], LAMBDA z : z \in sel)] :
        sel \in SUBSET (1..(n + 1))}

LoadInit ==
    /\ v_allocations \in LoadAllocations
    /\ v_route \in LoadRoutes(Len(v_allocations))
    /\ v_loading = [weight_status |-> "unset"]
    /\ v_op = "none"

OptimizeVehicleLoading ==
    /\ v_op = "none"
    /\ v_loading' = optimize_vehicle_loading(v_route, v_allocations)
    /\ v_op' = "loaded"
    /\ UNCHANGED <<v_route, v_allocations, allocVars, schedVars, simVars,
                   assessVars, orchVars, trendVars, routeVars, analysisVars>>

LoadNext == OptimizeVehicleLoading

----------------------------------------------------------------------------
(* MonitorAdaptationAgent._create_fallback_analysis *)

RECURSIVE SumDelivered(_, _)
SumDelivered(outcomes, n) ==
    IF n = 0 THEN 0
    ELSE SumDelivered(outcomes, n - 1) + outcomes[n].delivered_percentage

ZoneIds(outcomes) == [i \in 1..Len(outcomes) |-> outcomes[i].zone_id]

MeanDelivered_ZeroOnEmpty(outcomes) ==
    [raises |-> FALSE,
     value |-> IF Len(outcomes) = 0 THEN 0
               ELSE RoundNearest(SumDelivered(outcomes, Len(outcomes)),
                                 Len(outcomes))]

MeanDelivered_Truncated(outcomes) ==
    IF Len(outcomes) = 0 THEN [raises |-> TRUE, value |-> 0]
    ELSE [raises |-> FALSE,
          value |-> SumDelivered(outcomes, Len(outcomes)) \div Len(outcomes)]

\* round(sum(delivered_percentage) / len(actual_outcomes), 1), in tenths of a
\* percent; the division raises ZeroDivisionError on an empty list
MeanDelivered(outcomes) ==
    IF Len(outcomes) = 0 THEN [raises |-> TRUE, value |-> 0]
    ELSE [raises |-> FALSE,
          value |-> RoundNearest(SumDelivered(outcomes, Len(outcomes)),
                                 Len(outcomes))]

create_fallback_analysis(outcomes) ==
    LET followup_needed ==
            ZoneIds(SelectSeq(outcomes,
                              LAMBDA o : o.delivered_percentage < 750))
    IN  [overall_success_rate |-> MeanDelivered(outcomes).value,
         zones_fully_served |->
            ZoneIds(SelectSeq(outcomes,
                              LAMBDA o : o.delivered_percentage >= 950)),
         zones_partially_served |->
            ZoneIds(SelectSeq(outcomes,
                              LAMBDA o : /\ o.delivered_percentage >= 750
                                         /\ o.delivered_percentage < 950)),
         zones_requiring_followup |-> followup_needed,
         performance_insights |-> "Fallback analysis generated",
         resource_reallocation_zones |-> followup_needed]

MaxOutcomes == 4

\* delivered_percentage values drawn, in tenths of a percent
Percentages == {650, 750, 850, 920, 950, 980}

OutcomeLists ==
    UNION {{[i \in 1..n |-> [zone_id |-> i, delivered_percentage |-> p[i]]] :
               p \in [1..n -> Percentages]} : n \in 0..MaxOutcomes}

AnalysisInit ==
    /\ f_outcomes \in OutcomeLists
    /\ f_analysis = [performance_insights |-> "unset"]
    /\ f_op = "none"

CreateFallbackAnalysis ==
    /\ f_op = "none"
    /\ IF MeanDelivered(f_outcomes).raises
       THEN /\ f_op' = "raised"
            /\ UNCHANGED f_analysis
       ELSE /\ f_op' = "analyzed"
            /\ f_analysis' = create_fallback_analysis(f_outcomes)
    /\ UNCHANGED <<f_outcomes, allocVars, schedVars, simVars, assessVars,
                   orchVars, trendVars, routeVars, loadVars>>

AnalysisNext == CreateFallbackAnalysis

----------------------------------------------------------------------------
(* MonitorAdaptationAgent.track_historical_performance *)

RECURSIVE SumRates(_, _)
SumRates(cycles, n) ==
    IF n = 0 THEN 0 ELSE SumRates(cycles, n - 1) + cycles[n].overall_success_rate

Trend_InclusiveThresholds(diff, n) ==
    IF diff >= 50 * n THEN "improving"
    ELSE IF diff <= -50 * n THEN "declining"
    ELSE "stable"

\* 'improving' if improvement > 5 else 'declining' if improvement < -5 else
\* 'stable', where improvement = diff / n and rates are in tenths of a
\* percent
Trend(diff, n) ==
    IF diff > 50 * n THEN "improving"
    ELSE IF diff < -50 * n THEN "declining"
    ELSE "stable"

\* the analysis computed from a non-empty list of previous cycles
TrendAnalysis(current_cycle, previous_cycles) ==
    LET n == Len(previous_cycles)
        diff == current_cycle.overall_success_rate * n
                   - SumRates(previous_cycles, n)
    IN  [current_success_rate |-> current_cycle.overall_success_rate,
         trend |-> Trend(diff, n),
         total_cycles_completed |-> n + 1]

track_historical_performance_NoSentinel(current_cycle, previous_cycles) ==
    TrendAnalysis(current_cycle, previous_cycles)

\* if not previous_cycles: return the sentinel before any arithmetic
track_historical_performance(current_cycle, previous_cycles) ==
    IF Len(previous_cycles) = 0
    THEN [trend |-> "first_cycle",
          message |-> "No historical data available yet"]
    ELSE TrendAnalysis(current_cycle, previous_cycles)

MaxPrevious == 3

\* overall_success_rate values, in tenths of a percent; multiples of 0.5 are
\* exact in binary floating point
TrendRates == {700, 800, 850, 900, 925}

PreviousLists ==
    UNION {[1..n -> {[overall_success_rate |-> x] : x \in TrendRates}] :
              n \in 0..MaxPrevious}

TrendInit ==
    /\ t_current \in {[overall_success_rate |-> x] : x \in TrendRates}
    /\ t_previous \in PreviousLists
    /\ t_result = [trend |-> "none"]
    /\ t_op = "none"

TrackHistoricalPerformance ==
    /\ t_op = "none"
    /\ t_result' = track_historical_performance(t_current, t_previous)
    /\ t_op' = "tracked"
    /\ UNCHANGED <<t_current, t_previous, allocVars, schedVars, simVars,
                   assessVars, orchVars, routeVars, analysisVars, loadVars>>

TrendNext == TrackHistoricalPerformance

----------------------------------------------------------------------------
(* HumanitarianAIOrchestrator and main *)

MaxCycles == 2

\* zones of a run of one cycle, and of a run of several cycles
MaxNumZones == 3

MaxNumZonesMulti == 1

Phases ==
    <<"SNAPSHOT", "ASSESS", "ALLOCATE", "PLAN_LOGISTICS",
      "SIMULATE_EXECUTION", "ANALYZE", "RECORD">>

PhaseSet == {Phases[i] : i \in 1..Len(Phases)}

AdvisoryPhases == {"ASSESS", "ALLOCATE", "PLAN_LOGISTICS", "ANALYZE"}

NextPhase_SkipsSimulation(phase) ==
    CASE phase = "SNAPSHOT" -> "ASSESS"
      [] phase = "ASSESS" -> "ALLOCATE"
      [] phase = "ALLOCATE" -> "PLAN_LOGISTICS"
      [] phase = "PLAN_LOGISTICS" -> "ANALYZE"
      [] phase = "SIMULATE_EXECUTION" -> "ANALYZE"
      [] phase = "ANALYZE" -> "RECORD"

\* run_distribution_cycle is straight-line code: the phase that follows
NextPhase(phase) ==
    CASE phase = "SNAPSHOT" -> "ASSESS"
      [] phase = "ASSESS" -> "ALLOCATE"
      [] phase = "ALLOCATE" -> "PLAN_LOGISTICS"
      [] phase = "PLAN_LOGISTICS" -> "SIMULATE_EXECUTION"
      [] phase = "SIMULATE_EXECUTION" -> "ANALYZE"
      [] phase = "ANALYZE" -> "RECORD"

NoError == [phase |-> "none", cause |-> "none", cycle |-> 0]

NoPool == [unset |-> TRUE]

NoPlan == [routes |-> <<>>]

NoAnalysis == [performance_insights |-> "unset"]

NoTrend == [trend |-> "none"]

\* the pool get_available_resources returns in orchestrator runs
OrchPools == {MakePool(25, 7)}

\* the challenges drawn in orchestrator runs
OrchChallenges == {"none", "security_concern"}

\* the score of a parsed advisory assessment in orchestrator runs
OrchScore == 80

\* the base_success draw in orchestrator runs
OrchBase == 9999

\* parsed advisory allocations: an empty array, or 5 units of food and water
\* for every target zone, or 5 units of food for every target zone with 10
\* liters of water for the last one and -1 for the others
OrchProposals(target_zones) ==
    {<<>>,
     [j \in 1..Len(target_zones) |->
        [zone_id |-> target_zones[j].zone_id,
         priority_score |-> target_zones[j].priority_score,
         qty |-> [k \in {"food_packages", "water_liters"} |-> 5]]],
     [j \in 1..Len(target_zones) |->
        [zone_id |-> target_zones[j].zone_id,
         priority_score |-> target_zones[j].priority_score,
         qty |-> [k \in {"food_packages", "water_liters"} |->
                    IF k = "food_packages" THEN 5
                    ELSE IF j = Len(target_zones) THEN 10 ELSE -1]]]}

\* the parsed advisory route plan: one route through every allocated zone
OrchPlan(allocs) ==
    [routes |->
        IF Len(allocs) = 0 THEN <<>>
        ELSE <<[route_id |-> 1,
                zones_sequence |->
                    [i \in 1..Len(allocs) |-> allocs[i].zone_id]]>>]

\* zone_logistics: the zones_df rows of the allocated zones
OrchLogistics(allocs) ==
    [i \in 1..Len(allocs) |->
        [zone_id |-> allocs[i].zone_id,
         distance_from_depot |-> DefaultDistance]]

\* the parsed advisory analysis
OrchAnalysis ==
    [overall_success_rate |-> 855,
     zones_fully_served |-> <<>>,
     zones_partially_served |-> <<>>,
     zones_requiring_followup |-> <<>>,
     performance_insights |-> "advisory",
     resource_reallocation_zones |-> <<>>]

\* a slice that takes one zone more than max_zones
Take_OneTooMany(seq, n) == SubSeq(seq, 1, Min(n + 1, Len(seq)))

\* prioritized_zones[:max_zones]
Take(seq, n) == SubSeq(seq, 1, Min(n, Len(seq)))

\* the locals and the logs of a call of run_distribution_cycle
StartCycle(c) ==
    /\ cycle' = c
    /\ pc' = "SNAPSHOT"
    /\ resources' = NoPool
    /\ prioritized_zones' = <<>>
    /\ allocations' = <<>>
    /\ delivery_plan' = NoPlan
    /\ schedule' = <<>>
    /\ actual_outcomes' = <<>>
    /\ analysis' = NoAnalysis
    /\ entered' = <<>>
    /\ returned' = <<>>
    /\ resp' = [p \in AdvisoryPhases |-> <<>>]
    /\ path' = [p \in AdvisoryPhases |-> "none"]
    /\ history_before' = cycle_history
    /\ cycles_started' = cycles_started + 1

Raise_RecordsPartialCycle(phase, cause) ==
    /\ pc' = "raised"
    /\ raised' = [phase |-> phase, cause |-> cause, cycle |-> cycle]
    /\ entered' = Append(entered, phase)
    /\ cycle_history' = Append(cycle_history, [cycle_number |-> cycle])
    /\ UNCHANGED returned

\* an exception leaves the running phase, and run_distribution_cycle before
\* its cycle_history.append, and propagates to main
Raise(phase, cause) ==
    /\ pc' = "raised"
    /\ raised' = [phase |-> phase, cause |-> cause, cycle |-> cycle]
    /\ entered' = Append(entered, phase)
    /\ UNCHANGED <<returned, cycle_history>>

\* the running phase returns and the next one is up
Return(phase) ==
    /\ pc' = NextPhase(phase)
    /\ entered' = Append(entered, phase)
    /\ returned' = Append(returned, phase)
    /\ UNCHANGED <<raised, cycle_history>>

\* HumanitarianAIOrchestrator.__init__: the simulator has generated its
\* zones once, no pool is drawn, cycle_history is empty
OrchConstructed ==
    /\ zones_generated = 1
    /\ pools_drawn = 0
    /\ cycle = 0
    /\ pc = "main"
    /\ cycle_history = <<>>
    /\ all_results = <<>>
    /\ trends = NoTrend
    /\ resources = NoPool
    /\ prioritized_zones = <<>>
    /\ allocations = <<>>
    /\ delivery_plan = NoPlan
    /\ schedule = <<>>
    /\ actual_outcomes = <<>>
    /\ analysis = NoAnalysis
    /\ raised = NoError
    /\ exit_code = -1
    /\ entered = <<>>
    /\ returned = <<>>
    /\ resp = [p \in AdvisoryPhases |-> <<>>]
    /\ path = [p \in AdvisoryPhases |-> "none"]
    /\ history_before = <<>>
    /\ cycles_started = 0

\* main: one call on a new orchestrator
OrchInit ==
    /\ num_cycles \in 1..MaxCycles
    /\ num_zones \in 0..(IF num_cycles = 1 THEN MaxNumZones
                                            ELSE MaxNumZonesMulti)
    /\ max_zones_to_serve \in {1, 7}
    /\ pending = 0
    /\ OrchConstructed

\* a caller that runs one cycle directly and then several cycles on the
\* same orchestrator
CallsInit ==
    /\ num_cycles = 2
    /\ num_zones = 1
    /\ max_zones_to_serve = 1
    /\ pending = 1
    /\ OrchConstructed

others == <<allocVars, schedVars, simVars, assessVars, agentVars>>

\* main: run_distribution_cycle(cycle_number=1) if NUM_CYCLES == 1, else
\* run_multiple_cycles, whose loop starts with cycle 1
MainCall ==
    /\ pc = "main"
    /\ pending = 0
    /\ StartCycle(1)
    /\ UNCHANGED <<num_zones, zones_generated, pools_drawn, pending,
                   max_zones_to_serve, num_cycles, cycle_history,
                   all_results, trends, raised, exit_code, others>>

\* a direct call run_distribution_cycle(cycle_number=1) by the caller
CallerCall ==
    /\ pc = "main"
    /\ pending > 0
    /\ StartCycle(1)
    /\ UNCHANGED <<num_zones, zones_generated, pools_drawn, pending,
                   max_zones_to_serve, num_cycles, cycle_history,
                   all_results, trends, raised, exit_code, others>>

\* PHASE 1: zones = self.simulator.zones, the frame the constructor
\* generated; zones['population'] raises KeyError on a frame without rows;
\* resources = get_available_resources(), a new draw
Snapshot ==
    /\ pc = "SNAPSHOT"
    /\ IF num_zones = 0
       THEN /\ Raise("SNAPSHOT", "KeyError")
            /\ UNCHANGED <<resources, pools_drawn>>
       ELSE /\ resources' \in OrchPools
            /\ pools_drawn' = pools_drawn + 1
            /\ Return("SNAPSHOT")
    /\ UNCHANGED <<num_zones, zones_generated, pending,
                   max_zones_to_serve, num_cycles, cycle,
                   all_results, trends, prioritized_zones,
                   allocations, delivery_plan, schedule, actual_outcomes,
                   analysis, exit_code, resp, path, history_before,
                   cycles_started, others>>

\* PHASE 2: assess_all_zones, one advisory round trip per zone, stopping at
\* the first one that raises
Assess ==
    /\ pc = "ASSESS"
    /\ \E rs \in [1..num_zones -> ResponseKinds] :
          LET failing == {i \in 1..num_zones : Handle(rs[i]) = "raise"}
              first == CHOOSE i \in failing : \A j \in failing : i <= j
              assessments ==
                  [i \in 1..num_zones |->
                      IF Handle(rs[i]) = "advisory"
                      THEN AdvisoryAssessment(i, OrchScore)
                      ELSE DefaultAssessment(i)]
          IN  IF failing # {}
              THEN /\ Raise("ASSESS", Cause(rs[first]))
                   /\ resp' = [resp EXCEPT !["ASSESS"] = SubSeq(rs, 1, first)]
                   /\ UNCHANGED <<prioritized_zones, path>>
              ELSE /\ prioritized_zones' = SortedByPriority(assessments)
                   /\ resp' = [resp EXCEPT !["ASSESS"] = rs]
                   /\ path' = [path EXCEPT !["ASSESS"] =
                                  IF \E i \in 1..num_zones :
                                        Handle(rs[i]) = "fallback"
                                  THEN "fallback" ELSE "advisory"]
                   /\ Return("ASSESS")
    /\ UNCHANGED <<num_zones, zones_generated, pools_drawn, pending,
                   max_zones_to_serve, num_cycles, cycle,
                   all_results, trends, resources,
                   allocations, delivery_plan, schedule, actual_outcomes,
                   analysis, exit_code, history_before, cycles_started,
                   others>>

\* PHASE 3: allocate_resources (calculate_coverage only reads)
Allocate ==
    /\ pc = "ALLOCATE"
    /\ \E kind \in ResponseKinds :
          LET target_zones == Take(prioritized_zones, max_zones_to_serve)
          IN  /\ resp' = [resp EXCEPT !["ALLOCATE"] = <<kind>>]
              /\ CASE Handle(kind) = "advisory" ->
                        /\ \E proposals \in OrchProposals(target_zones) :
                              allocations' =
                                  validate_allocations(proposals, resources)
                        /\ path' = [path EXCEPT !["ALLOCATE"] = "advisory"]
                        /\ Return("ALLOCATE")
                   [] Handle(kind) = "fallback" ->
                        /\ allocations' =
                              create_fallback_allocation(target_zones,
                                                         resources)
                        /\ path' = [path EXCEPT !["ALLOCATE"] = "fallback"]
                        /\ Return("ALLOCATE")
                   [] OTHER ->
                        /\ Raise("ALLOCATE", Cause(kind))
                        /\ UNCHANGED <<allocations, path>>
    /\ UNCHANGED <<num_zones, zones_generated, pools_drawn, pending,
                   max_zones_to_serve, num_cycles, cycle,
                   all_results, trends, resources,
                   prioritized_zones, delivery_plan, schedule,
                   actual_outcomes, analysis, exit_code, history_before,
                   cycles_started, others>>

\* PHASE 4: plan_delivery_routes, then generate_delivery_schedule
PlanLogistics ==
    /\ pc = "PLAN_LOGISTICS"
    /\ \E kind \in ResponseKinds :
          /\ resp' = [resp EXCEPT !["PLAN_LOGISTICS"] = <<kind>>]
          /\ IF Handle(kind) = "raise"
             THEN /\ Raise("PLAN_LOGISTICS", Cause(kind))
                  /\ UNCHANGED <<delivery_plan, schedule, path>>
             ELSE LET plan == IF Handle(kind) = "advisory"
                              THEN OrchPlan(allocations)
                              ELSE create_fallback_route_plan(
                                       allocations,
                                       OrchLogistics(allocations))
                  IN  /\ delivery_plan' = plan
                      /\ schedule' = generate_delivery_schedule(plan)
                      /\ path' = [path EXCEPT !["PLAN_LOGISTICS"] =
                                     Handle(kind)]
                      /\ Return("PLAN_LOGISTICS")
    /\ UNCHANGED <<num_zones, zones_generated, pools_drawn, pending,
                   max_zones_to_serve, num_cycles, cycle,
                   all_results, trends, resources,
                   prioritized_zones, allocations, actual_outcomes, analysis,
                   exit_code, history_before, cycles_started, others>>

\* PHASE 5, first half: _simulate_delivery_execution
SimulateExecution ==
    /\ pc = "SIMULATE_EXECUTION"
    /\ \E chs \in [1..Len(allocations) -> OrchChallenges] :
          actual_outcomes' =
              [i \in 1..Len(allocations) |->
                  Outcome(allocations[i], OrchBase, chs[i])]
    /\ Return("SIMULATE_EXECUTION")
    /\ UNCHANGED <<num_zones, zones_generated, pools_drawn, pending,
                   max_zones_to_serve, num_cycles, cycle,
                   all_results, trends, resources,
                   prioritized_zones, allocations, delivery_plan, schedule,
                   analysis, exit_code, resp, path, history_before,
                   cycles_started, others>>

\* PHASE 5, second half: analyze_delivery_outcomes
Analyze ==
    /\ pc = "ANALYZE"
    /\ \E kind \in ResponseKinds :
          /\ resp' = [resp EXCEPT !["ANALYZE"] = <<kind>>]
          /\ CASE Handle(kind) = "advisory" ->
                    /\ analysis' = OrchAnalysis
                    /\ path' = [path EXCEPT !["ANALYZE"] = "advisory"]
                    /\ Return("ANALYZE")
               [] Handle(kind) = "fallback"
                    /\ ~MeanDelivered(actual_outcomes).raises ->
                    /\ analysis' = create_fallback_analysis(actual_outcomes)
                    /\ path' = [path EXCEPT !["ANALYZE"] = "fallback"]
                    /\ Return("ANALYZE")
               [] Handle(kind) = "fallback"
                    /\ MeanDelivered(actual_outcomes).raises ->
                    /\ Raise("ANALYZE", "ZeroDivisionError")
                    /\ UNCHANGED <<analysis, path>>
               [] OTHER ->
                    /\ Raise("ANALYZE", Cause(kind))
                    /\ UNCHANGED <<analysis, path>>
    /\ UNCHANGED <<num_zones, zones_generated, pools_drawn, pending,
                   max_zones_to_serve, num_cycles, cycle,
                   all_results, trends, resources,
                   prioritized_zones, allocations, delivery_plan, schedule,
                   actual_outcomes, exit_code, history_before,
                   cycles_started, others>>

\* a record that stores what is left of the pool after the allocations
CompleteResults_RemainingPool ==
    [cycle_number |-> cycle,
     available_resources |->
        [k \in DOMAIN resources |-> resources[k] - SumQty(allocations, k)],
     prioritized_zones |-> prioritized_zones,
     allocations |-> allocations,
     delivery_plan |-> delivery_plan,
     schedule |-> schedule,
     actual_results |-> actual_outcomes,
     analysis |-> analysis,
     zones_served |-> Len(allocations),
     success_rate |-> analysis.overall_success_rate]

\* complete_results
CompleteResults ==
    [cycle_number |-> cycle,
     available_resources |-> resources,
     prioritized_zones |-> prioritized_zones,
     allocations |-> allocations,
     delivery_plan |-> delivery_plan,
     schedule |-> schedule,
     actual_results |-> actual_outcomes,
     analysis |-> analysis,
     zones_served |-> Len(allocations),
     success_rate |-> analysis.overall_success_rate]

Record_KeepsLatestOnly ==
    /\ pc = "RECORD"
    /\ cycle_history' = <<CompleteResults>>
    /\ pc' = "SAVE"
    /\ entered' = Append(entered, "RECORD")
    /\ returned' = Append(returned, "RECORD")
    /\ UNCHANGED <<num_zones, zones_generated, pools_drawn, pending,
                   max_zones_to_serve, num_cycles, cycle,
                   all_results, trends, localVars, raised, exit_code, resp,
                   path, history_before, cycles_started, others>>

\* PHASE 6: compile the record, append it to cycle_history and return it;
\* run_multiple_cycles appends it to all_results after save_results
Record ==
    /\ pc = "RECORD"
    /\ cycle_history' = Append(cycle_history, CompleteResults)
    /\ pc' = "SAVE"
    /\ entered' = Append(entered, "RECORD")
    /\ returned' = Append(returned, "RECORD")
    /\ UNCHANGED <<num_zones, zones_generated, pools_drawn, pending,
                   max_zones_to_serve, num_cycles, cycle,
                   all_results, trends, localVars, raised, exit_code, resp,
                   path, history_before, cycles_started, others>>

\* where run_multiple_cycles goes after a cycle's trend step
AfterCycle ==
    IF cycle < num_cycles
    THEN StartCycle(cycle + 1)
    ELSE /\ pc' = "finish"
         /\ UNCHANGED <<cycle, localVars, logVars>>

\* save_results(results) writes the record to a file: by the caller after a
\* direct run_distribution_cycle call, by run_multiple_cycles after each
\* cycle
SaveResults ==
    /\ pc = "SAVE"
    /\ IF pending > 0
       THEN /\ pc' = "main"
            /\ pending' = pending - 1
            /\ UNCHANGED <<cycle, all_results, localVars, logVars>>
       ELSE /\ UNCHANGED pending
            /\ IF num_cycles = 1
               THEN /\ pc' = "finish"
                    /\ UNCHANGED <<cycle, all_results, localVars, logVars>>
               ELSE /\ all_results' =
                          Append(all_results, cycle_history[Len(cycle_history)])
                    /\ IF cycle > 1
                       THEN /\ pc' = "TREND"
                            /\ UNCHANGED <<cycle, localVars, logVars>>
                       ELSE AfterCycle
    /\ UNCHANGED <<num_zones, zones_generated, pools_drawn,
                   max_zones_to_serve, num_cycles, cycle_history,
                   trends, raised, exit_code, others>>

\* the file cannot be written: OSError
SaveResultsRaise ==
    /\ pc = "SAVE"
    /\ pc' = "raised"
    /\ raised' = [phase |-> "SAVE", cause |-> "OSError", cycle |-> cycle]
    /\ UNCHANGED <<num_zones, zones_generated, pools_drawn, pending,
                   max_zones_to_serve, num_cycles, cycle,
                   cycle_history, all_results, trends, localVars, exit_code,
                   logVars, others>>

\* [r['delivery_outcomes']['analysis'] for r in all_results[:-1]]
PriorAnalyses ==
    [i \in 1..(Len(all_results) - 1) |-> all_results[i].analysis]

\* run_multiple_cycles, cycle > 1: track_historical_performance over
\* all_results
TrackTrend ==
    /\ pc = "TREND"
    /\ trends' =
          track_historical_performance(
              all_results[Len(all_results)].analysis, PriorAnalyses)
    /\ AfterCycle
    /\ UNCHANGED <<num_zones, zones_generated, pools_drawn, pending,
                   max_zones_to_serve, num_cycles, cycle_history,
                   all_results, raised, exit_code, others>>

\* main after the cycles: summary report, visualisations, return 0
MainFinish ==
    /\ pc = "finish"
    /\ pc' = "exit"
    /\ exit_code' = 0
    /\ UNCHANGED <<num_zones, zones_generated, pools_drawn, pending,
                   max_zones_to_serve, num_cycles, cycle,
                   cycle_history, all_results, trends, localVars, raised,
                   logVars, others>>

\* a visualisation raises: except Exception, return 1
MainFinishRaise ==
    /\ pc = "finish"
    /\ pc' = "exit"
    /\ raised' = [phase |-> "VISUALIZE", cause |-> "Exception",
                  cycle |-> cycle]
    /\ exit_code' = 1
    /\ UNCHANGED <<num_zones, zones_generated, pools_drawn, pending,
                   max_zones_to_serve, num_cycles, cycle,
                   cycle_history, all_results, trends, localVars, logVars,
                   others>>

\* main: except Exception, return 1
MainExcept ==
    /\ pc = "raised"
    /\ pc' = "exit"
    /\ exit_code' = 1
    /\ UNCHANGED <<num_zones, zones_generated, pools_drawn, pending,
                   max_zones_to_serve, num_cycles, cycle,
                   cycle_history, all_results, trends, localVars, raised,
                   logVars, others>>

Next ==
    \/ MainCall
    \/ Snapshot
    \/ Assess
    \/ Allocate
    \/ PlanLogistics
    \/ SimulateExecution
    \/ Analyze
    \/ Record
    \/ SaveResults
    \/ SaveResultsRaise
    \/ TrackTrend
    \/ MainFinish
    \/ MainFinishRaise
    \/ MainExcept

CallsNext == CallerCall \/ Next

----------------------------------------------------------------------------
(* Specifications *)

AllocIdle ==
    /\ a_pool = MakePool(0, 0)
    /\ a_proposals = <<>>
    /\ a_zones = <<>>
    /\ a_result = <<>>
    /\ a_op = "idle"

SchedIdle ==
    /\ s_plan = [routes |-> <<>>]
    /\ s_schedule = <<>>
    /\ s_op = "idle"

SimIdle ==
    /\ m_allocations = <<>>
    /\ m_outcomes = <<>>
    /\ m_draws = <<>>

AssessIdle ==
    /\ n_count = 0
    /\ n_assessments = <<>>
    /\ n_sorted = <<>>
    /\ n_op = "idle"

\* no orchestrator is constructed
OrchIdle ==
    /\ OrchInit
    /\ num_zones = 0
    /\ max_zones_to_serve = 7
    /\ num_cycles = 1

\* no trend tracker call is under way
TrendIdle ==
    /\ t_current = [overall_success_rate |-> 0]
    /\ t_previous = <<>>
    /\ t_result = [trend |-> "none"]
    /\ t_op = "idle"

RouteIdle ==
    /\ r_allocations = <<>>
    /\ r_zone_logistics = <<>>
    /\ r_plan = [routes |-> <<>>]
    /\ r_op = "idle"

AnalysisIdle ==
    /\ f_outcomes = <<>>
    /\ f_analysis = [performance_insights |-> "unset"]
    /\ f_op = "idle"

LoadIdle ==
    /\ v_route = [zones_sequence |-> <<>>]
    /\ v_allocations = <<>>
    /\ v_loading = [weight_status |-> "unset"]
    /\ v_op = "idle"

AgentsIdle == TrendIdle /\ RouteIdle /\ AnalysisIdle /\ LoadIdle

InitAlloc ==
    AllocInit /\ SchedIdle /\ SimIdle /\ AssessIdle /\ OrchIdle /\ AgentsIdle

SpecAlloc == InitAlloc /\ [][AllocNext]_vars

InitSched ==
    SchedInit /\ AllocIdle /\ SimIdle /\ AssessIdle /\ OrchIdle /\ AgentsIdle

SpecSched == InitSched /\ [][SchedNext]_vars

InitSim ==
    SimInit /\ AllocIdle /\ SchedIdle /\ AssessIdle /\ OrchIdle /\ AgentsIdle

SpecSim == InitSim /\ [][SimNext]_vars

InitAssess ==
    AssessInit /\ AllocIdle /\ SchedIdle /\ SimIdle /\ OrchIdle /\ AgentsIdle

SpecAssess == InitAssess /\ [][AssessNext]_vars

Init ==
    OrchInit /\ AllocIdle /\ SchedIdle /\ SimIdle /\ AssessIdle /\ AgentsIdle

InitCalls ==
    /\ CallsInit /\ AllocIdle /\ SchedIdle /\ SimIdle /\ AssessIdle
    /\ AgentsIdle

SpecCalls == InitCalls /\ [][CallsNext]_vars

InitTrend ==
    /\ TrendInit /\ RouteIdle /\ AnalysisIdle /\ LoadIdle
    /\ AllocIdle /\ SchedIdle /\ SimIdle /\ AssessIdle /\ OrchIdle

SpecTrend == InitTrend /\ [][TrendNext]_vars

InitRoute ==
    /\ RouteInit /\ TrendIdle /\ AnalysisIdle /\ LoadIdle
    /\ AllocIdle /\ SchedIdle /\ SimIdle /\ AssessIdle /\ OrchIdle

SpecRoute == InitRoute /\ [][RouteNext]_vars

InitAnalysis ==
    /\ AnalysisInit /\ TrendIdle /\ RouteIdle /\ LoadIdle
    /\ AllocIdle /\ SchedIdle /\ SimIdle /\ AssessIdle /\ OrchIdle

SpecAnalysis == InitAnalysis /\ [][AnalysisNext]_vars

InitLoad ==
    /\ LoadInit /\ TrendIdle /\ RouteIdle /\ AnalysisIdle
    /\ AllocIdle /\ SchedIdle /\ SimIdle /\ AssessIdle /\ OrchIdle

SpecLoad == InitLoad /\ [][LoadNext]_vars

Spec == Init /\ [][Next]_vars

----------------------------------------------------------------------------
(* Claims on the allocation agent *)

\* C1: after _validate_allocations, for every resource kind the sum over
\* zones of the returned quantities is at most the pool quantity, whatever
\* quantities were proposed.
Conservation ==
    a_op = "validate" =>
        \A k \in Kinds : SumQty(a_result, k) <= a_pool[k]

\* C2: after _create_fallback_allocation, for every resource kind the sum
\* over zones of the allocated quantities is at most 0.9 * pool quantity.
FallbackReserveBound ==
    a_op = "fallback" =>
        \A k \in Kinds : 10 * SumQty(a_result, k) <= 9 * a_pool[k]

\* C2 witness: a fallback over several zones that hands out a positive
\* amount from a positive pool
FallbackReserveWitness ==
    /\ a_op = "fallback"
    /\ Len(a_result) >= 2
    /\ a_pool["food_packages"] = 25
    /\ SumQty(a_result, "food_packages") > 0

\* every kind's proposed sum is within the pool
WithinPool(allocs, pool) ==
    \A k \in TotalsKeys(allocs, pool) : SumQty(allocs, k) <= pool[k]

\* C13: _validate_allocations returns proposals that are already within the
\* pool unchanged, and validating its own result changes nothing:
\* validate(validate(p)) = validate(p) for any proposals p.
ValidateIdempotent ==
    a_op = "validate" =>
        /\ WithinPool(a_proposals, a_pool) => a_result = a_proposals
        /\ validate_allocations(a_result, a_pool) = a_result

\* C14: for a kind whose proposed sum S exceeds the pool quantity P, every
\* zone's quantity q becomes q * P / S rounded down; 700 and 700 of a pool of
\* 1000 become 500 and 500.
ScalingRoundsDown ==
    a_op = "validate" =>
        /\ \A k \in TotalsKeys(a_proposals, a_pool) :
              SumQty(a_proposals, k) > a_pool[k] =>
                 \A i \in 1..Len(a_proposals) :
                    k \in DOMAIN a_proposals[i].qty =>
                       a_result[i].qty[k] =
                          (a_proposals[i].qty[k] * a_pool[k])
                             \div SumQty(a_proposals, k)
        /\ (a_pool["food_packages"] = 1000
              /\ a_proposals = FoodProposals(<<700, 700>>)) =>
                 a_result = FoodProposals(<<500, 500>>)

----------------------------------------------------------------------------
(* Claims on the delivery simulator *)

\* C8: in every outcome of _simulate_delivery_execution the recorded
\* delivered_percentage and delivery_status agree: >= 95 iff complete,
\* in [75, 95) iff partial, < 75 iff incomplete.
OutcomeStatusConsistency ==
    \A i \in 1..Len(m_outcomes) :
        LET o == m_outcomes[i]
        IN  /\ o.delivered_percentage >= 950 <=> o.delivery_status = "complete"
            /\ (o.delivered_percentage >= 750 /\ o.delivered_percentage < 950)
                  <=> o.delivery_status = "partial"
            /\ o.delivered_percentage < 750 <=> o.delivery_status = "incomplete"

----------------------------------------------------------------------------
(* Claims on the schedule generator *)

\* C9: within one route of a generated schedule, the arrival time of zone
\* i+1 is at or after the departure time of zone i.
ScheduleMonotonicity ==
    s_op = "scheduled" =>
        \A r \in 1..Len(s_schedule) :
            \A i \in 1..(Len(s_schedule[r].zones) - 1) :
                Minutes(s_schedule[r].zones[i + 1].arrival_time)
                    >= Minutes(s_schedule[r].zones[i].departure_time)

\* C9 witness: a schedule whose second route, starting on a half hour, has
\* consecutive zones
ScheduleMonotonicityWitness ==
    /\ s_op = "scheduled"
    /\ Len(s_schedule) >= 2
    /\ Len(s_schedule[2].zones) >= 2
    /\ s_schedule[2].start_time.mm = 30

\* C17: the first route starts at 08:00; within a route zone k (0-based)
\* arrives at route start + k hours and departs 30 minutes later; the route
\* ends at start + (number of zones) hours; the next route starts half an
\* hour after that end; hours run past 24 unwrapped. One route of two zones:
\* arrivals 08:00 and 09:00, departures 08:30 and 09:30, end 10:00.
ScheduleTimes ==
    s_op = "scheduled" =>
        /\ Len(s_schedule) = Len(s_plan.routes)
        /\ s_schedule # <<>> => s_schedule[1].start_time = [hh |-> 8, mm |-> 0]
        /\ \A r \in 1..Len(s_schedule) :
              LET rs == s_schedule[r]
                  start == Minutes(rs.start_time)
              IN  /\ Len(rs.zones) = Len(s_plan.routes[r].zones_sequence)
                  /\ rs.start_time.mm \in {0, 30}
                  /\ \A k \in 1..Len(rs.zones) :
                        /\ rs.zones[k].zone_id =
                              s_plan.routes[r].zones_sequence[k]
                        /\ Minutes(rs.zones[k].arrival_time)
                              = start + 60 * (k - 1)
                        /\ Minutes(rs.zones[k].departure_time)
                              = start + 60 * (k - 1) + 30
                        /\ rs.zones[k].arrival_time.mm \in {0, 30}
                        /\ rs.zones[k].departure_time.mm \in {0, 30}
                  /\ Minutes(rs.end_time) = start + 60 * Len(rs.zones)
                  /\ rs.end_time.mm \in {0, 30}
                  /\ r < Len(s_schedule) =>
                        Minutes(s_schedule[r + 1].start_time)
                           = Minutes(rs.end_time) + 30
        /\ (Len(s_plan.routes) = 1
              /\ Len(s_plan.routes[1].zones_sequence) = 2) =>
                 /\ s_schedule[1].zones[1].arrival_time = [hh |-> 8, mm |-> 0]
                 /\ s_schedule[1].zones[1].departure_time = [hh |-> 8, mm |-> 30]
                 /\ s_schedule[1].zones[2].arrival_time = [hh |-> 9, mm |-> 0]
                 /\ s_schedule[1].zones[2].departure_time = [hh |-> 9, mm |-> 30]
                 /\ s_schedule[1].end_time = [hh |-> 10, mm |-> 0]

\* C17 witness: the fifth route's last zone is reached at 24:00 and the
\* route ends at 25:00
ScheduleTimesWitness ==
    /\ s_op = "scheduled"
    /\ Len(s_schedule) = 5
    /\ Len(s_schedule[5].zones) = 3
    /\ s_schedule[5].zones[3].arrival_time = [hh |-> 24, mm |-> 0]
    /\ s_schedule[5].end_time = [hh |-> 25, mm |-> 0]

----------------------------------------------------------------------------
(* Claims on the needs ranking *)

\* C10: assess_all_zones returns the assessments sorted by priority score
\* descending, equal scores in input order, as a permutation of the
\* assessments it collected.
PriorityOrderStable ==
    n_op = "sorted" =>
        /\ Len(n_sorted) = Len(n_assessments)
        /\ \A i \in 1..Len(n_sorted) :
              /\ n_sorted[i].zone_id \in 1..Len(n_assessments)
              /\ n_sorted[i] = n_assessments[n_sorted[i].zone_id]
        /\ \A i, j \in 1..Len(n_sorted) :
              i < j =>
                 \/ n_sorted[i].priority_score > n_sorted[j].priority_score
                 \/ /\ n_sorted[i].priority_score = n_sorted[j].priority_score
                    /\ n_sorted[i].zone_id < n_sorted[j].zone_id

\* C10 witness: a sorted result that moved a zone ahead and kept a tie
PriorityOrderWitness ==
    /\ n_op = "sorted"
    /\ Len(n_sorted) >= 3
    /\ n_sorted[1].zone_id # 1
    /\ \E i \in 1..(Len(n_sorted) - 1) :
          n_sorted[i].priority_score = n_sorted[i + 1].priority_score

----------------------------------------------------------------------------
(* Claims on the orchestrator *)

IsPrefix(s, t) == Len(s) <= Len(t) /\ s = SubSeq(t, 1, Len(s))

Ran(s) == {s[i] : i \in 1..Len(s)}

\* C3: in every run of run_distribution_cycle the phases are entered in the
\* order SNAPSHOT, ASSESS, ALLOCATE, PLAN_LOGISTICS, SIMULATE_EXECUTION,
\* ANALYZE, RECORD, each at most once and never skipped or retried; a cycle
\* that completes entered each exactly once; RECORD is entered only after the
\* six earlier phases returned.
PhaseOrder ==
    /\ IsPrefix(entered, Phases)
    /\ IsPrefix(returned, entered)
    /\ Len(entered) <= Len(returned) + 1
    /\ pc \in PhaseSet => /\ returned = entered
                          /\ pc = Phases[Len(entered) + 1]
    /\ "RECORD" \in Ran(entered) => SubSeq(Phases, 1, 6) = SubSeq(returned, 1, 6)
    /\ Len(cycle_history) > Len(history_before) => returned = Phases

\* C3 witness: the second cycle of a run completed
PhaseOrderWitness ==
    /\ cycle = 2
    /\ pc = "SAVE"
    /\ returned = Phases
    /\ Len(cycle_history) = 2

\* C4: a failure in a phase of cycle k propagates to main with cycle_history
\* as it was before the cycle started, holding the records of the k-1 earlier
\* cycles, and no later cycle is started.
FailureLeavesNoRecord ==
    (pc \in {"raised", "exit"} /\ raised.phase \in PhaseSet) =>
        /\ cycle_history = history_before
        /\ Len(cycle_history) = raised.cycle - 1
        /\ cycles_started = raised.cycle
        /\ \A i \in 1..Len(cycle_history) : cycle_history[i].cycle_number = i
        /\ pc = "exit" => exit_code = 1

\* C4 witness: the second cycle failed in a phase and main has caught it
FailureLeavesNoRecordWitness ==
    /\ pc = "exit"
    /\ raised.phase = "PLAN_LOGISTICS"
    /\ raised.cycle = 2
    /\ Len(cycle_history) = 1

\* the responses a phase has received are all answers, one of them malformed
MalformedAnswer(p) ==
    /\ \A i \in 1..Len(resp[p]) :
          resp[p][i] \in {"ok", "unparseable", "badschema"}
    /\ \E i \in 1..Len(resp[p]) : resp[p][i] \in {"unparseable", "badschema"}

\* C5: a phase whose advisory response is malformed (not JSON, or JSON that
\* does not match the phase's schema) returns its deterministic fallback and
\* the failure does not reach the caller. (The fallback analysis of an empty
\* outcome list is left aside: C7.)
MalformedFallsBack ==
    \A p \in AdvisoryPhases :
        (MalformedAnswer(p) /\ ~(p = "ANALYZE" /\ actual_outcomes = <<>>)) =>
            /\ p \in Ran(returned)
            /\ path[p] = "fallback"

\* the last call of phase p met a refused connection or a timeout
RequestFailed(p) ==
    /\ resp[p] # <<>>
    /\ resp[p][Len(resp[p])] \in {"unavailable", "timeout"}

\* C6: a phase whose advisory call is refused or times out does not take its
\* fallback: the error leaves the phase, no record is appended, main returns
\* a non-zero exit code; a fallback is taken only after an unparseable
\* response.
UnavailablePropagates ==
    \A p \in AdvisoryPhases :
        /\ RequestFailed(p) =>
              /\ path[p] = "none"
              /\ p \notin Ran(returned)
              /\ pc \in {"raised", "exit"}
              /\ raised = [phase |-> p, cause |-> "RequestException",
                           cycle |-> cycle]
              /\ cycle_history = history_before
              /\ pc = "exit" => exit_code = 1
        /\ path[p] = "fallback" =>
              /\ "unparseable" \in Ran(resp[p])
              /\ Ran(resp[p]) \subseteq {"ok", "unparseable"}

\* C6 witness: allocation timed out after an assessment that fell back, and
\* main has returned 1
UnavailablePropagatesWitness ==
    /\ pc = "exit"
    /\ exit_code = 1
    /\ resp["ALLOCATE"] = <<"timeout">>
    /\ path["ASSESS"] = "fallback"
    /\ raised.cause = "RequestException"

\* C7: with an empty outcome list the fallback analyzer fails: ANALYZE raises
\* (division by the zero length), returns no analysis, and the cycle ends
\* without a record.
EmptyOutcomesAbort ==
    (resp["ANALYZE"] = <<"unparseable">> /\ actual_outcomes = <<>>) =>
        /\ pc \in {"raised", "exit"}
        /\ raised = [phase |-> "ANALYZE", cause |-> "ZeroDivisionError",
                     cycle |-> cycle]
        /\ "ANALYZE" \notin Ran(returned)
        /\ analysis = NoAnalysis
        /\ cycle_history = history_before
        /\ pc = "exit" => exit_code = 1

\* C7 witness: the fallback analyzer ran on the empty outcome list of an
\* empty advisory allocation
EmptyOutcomesAbortWitness ==
    /\ resp["ANALYZE"] = <<"unparseable">>
    /\ actual_outcomes = <<>>
    /\ path["ALLOCATE"] = "advisory"
    /\ returned = SubSeq(Phases, 1, 5)
    /\ pc = "raised"

----------------------------------------------------------------------------
(* Claims on the trend tracker *)

\* C11: with a non-empty list of prior cycles, the trend is 'improving' iff
\* current rate - mean(previous rates) > 5, 'declining' iff it is < -5, and
\* 'stable' otherwise, the differences 5 and -5 included.
TrendThresholds ==
    (t_op = "tracked" /\ t_previous # <<>>) =>
        LET n == Len(t_previous)
            total == SumRates(t_previous, n)
            cur == t_current.overall_success_rate
        IN  /\ t_result.trend = "improving" <=> n * cur - total > 50 * n
            /\ t_result.trend = "declining" <=> n * cur - total < -(50 * n)
            /\ t_result.trend = "stable" <=>
                  (n * cur - total <= 50 * n /\ n * cur - total >= -(50 * n))

\* C11 witness: an improvement of exactly 5 over the mean of two different
\* earlier rates, reported stable
TrendThresholdsWitness ==
    /\ t_op = "tracked"
    /\ Len(t_previous) = 2
    /\ t_previous[1].overall_success_rate = 800
    /\ t_previous[2].overall_success_rate = 900
    /\ t_current.overall_success_rate = 900
    /\ t_result.trend = "stable"

\* C12: with an empty list of prior cycles the tracker returns trend
\* 'first_cycle' whatever the current cycle is, and nothing computed from the
\* rates: the result holds the sentinel and its message only.
TrendSentinel ==
    (t_op = "tracked" /\ t_previous = <<>>) =>
        /\ t_result.trend = "first_cycle"
        /\ DOMAIN t_result = {"trend", "message"}

\* C12 witness: the sentinel returned for a current cycle with a high rate
TrendSentinelWitness ==
    /\ t_op = "tracked"
    /\ t_previous = <<>>
    /\ t_current.overall_success_rate = 925
    /\ t_result.trend = "first_cycle"

----------------------------------------------------------------------------
(* Claims on the fallback route planner *)

RECURSIVE ConcatSequences(_, _)
\* the zones_sequence of the first n routes, one after the other
ConcatSequences(routes, n) ==
    IF n = 0 THEN <<>>
    ELSE ConcatSequences(routes, n - 1) \o routes[n].zones_sequence

\* C15: the fallback route plan cuts the allocation list into routes of 3
\* consecutive zones: every route but the last has exactly 3 zones, the last
\* has 1 to 3, every allocated zone is in exactly one route, and the routes'
\* zones_sequence concatenated in route order are the allocation order.
RoutePartition ==
    r_op = "planned" =>
        LET routes == r_plan.routes
            n == Len(routes)
        IN  /\ \A r \in 1..(n - 1) : Len(routes[r].zones_sequence) = 3
            /\ n > 0 => Len(routes[n].zones_sequence) \in 1..3
            /\ ConcatSequences(routes, n) =
                  [i \in 1..Len(r_allocations) |-> r_allocations[i].zone_id]
            /\ \A i \in 1..Len(r_allocations) :
                  Cardinality({r \in 1..n :
                      r_allocations[i].zone_id \in Ran(routes[r].zones_sequence)})
                     = 1

\* C15 witness: seven zones in descending id order planned as routes of 3, 3
\* and 1
RoutePartitionWitness ==
    /\ r_op = "planned"
    /\ Len(r_allocations) = 7
    /\ r_allocations[1].zone_id = 7
    /\ Len(r_plan.routes) = 3
    /\ r_plan.routes[3].zones_sequence = <<1>>

\* every zone of the route has a row in zone_logistics
HasRows(route) ==
    \A i \in 1..Len(route.zones_sequence) :
        \E j \in 1..Len(r_zone_logistics) :
            r_zone_logistics[j].zone_id = route.zones_sequence[i]

\* the distance_from_depot attribute of a zone that has a row
Attribute(zid) ==
    r_zone_logistics[CHOOSE j \in 1..Len(r_zone_logistics) :
                        r_zone_logistics[j].zone_id = zid].distance_from_depot

RECURSIVE AttributeSum(_, _)
AttributeSum(zone_ids, n) ==
    IF n = 0 THEN 0
    ELSE AttributeSum(zone_ids, n - 1) + Attribute(zone_ids[n])

\* C16 as stated: each fallback route's total distance is the sum of its
\* zones' distance-from-depot attributes and its estimated time is exactly
\* distance / 30 + 2 hours.
RouteTimeExact ==
    r_op = "planned" =>
        \A r \in 1..Len(r_plan.routes) :
            LET route == r_plan.routes[r]
            IN  HasRows(route) =>
                   /\ route.total_distance_km =
                         AttributeSum(route.zones_sequence,
                                      Len(route.zones_sequence))
                   /\ 30 * route.estimated_time_hours =
                         route.total_distance_km + 600

\* C16 amended: each fallback route's total distance is the sum of its zones'
\* distance-from-depot attributes and its estimated time is distance / 30 + 2
\* hours rounded to one decimal; zones at 10 and 20 km give 30 km and 3.0
\* hours.
RouteTimeRounded ==
    r_op = "planned" =>
        \A r \in 1..Len(r_plan.routes) :
            LET route == r_plan.routes[r]
                exact30 == route.total_distance_km + 600
            IN  HasRows(route) =>
                   /\ route.total_distance_km =
                         AttributeSum(route.zones_sequence,
                                      Len(route.zones_sequence))
                   /\ 2 * (30 * route.estimated_time_hours - exact30) <= 30
                   /\ 2 * (exact30 - 30 * route.estimated_time_hours) <= 30
                   /\ (Len(route.zones_sequence) = 2
                         /\ Attribute(route.zones_sequence[1]) = 100
                         /\ Attribute(route.zones_sequence[2]) = 200) =>
                            /\ route.total_distance_km = 300
                            /\ route.estimated_time_hours = 30

\* C16 witness: a route of 10 km, whose 2.33.. hours are reported as 2.3,
\* after a route of three zones
RouteTimeRoundedWitness ==
    /\ r_op = "planned"
    /\ Len(r_plan.routes) = 2
    /\ HasRows(r_plan.routes[1])
    /\ r_plan.routes[2].zones_sequence = <<4>>
    /\ r_plan.routes[2].total_distance_km = 100
    /\ r_plan.routes[2].estimated_time_hours = 23

----------------------------------------------------------------------------
(* Claims on the fallback analyzer *)

\* every outcome zone is in exactly the class its delivered_percentage
\* selects, and the reallocation zones are the follow-up zones
ClassesPartition ==
    /\ \A i \in 1..Len(f_outcomes) :
          LET p == f_outcomes[i].delivered_percentage
              z == f_outcomes[i].zone_id
          IN  /\ z \in Ran(f_analysis.zones_fully_served) <=> p >= 950
              /\ z \in Ran(f_analysis.zones_partially_served)
                    <=> (p >= 750 /\ p < 950)
              /\ z \in Ran(f_analysis.zones_requiring_followup) <=> p < 750
    /\ Len(f_analysis.zones_fully_served)
          + Len(f_analysis.zones_partially_served)
          + Len(f_analysis.zones_requiring_followup) = Len(f_outcomes)
    /\ f_analysis.resource_reallocation_zones
          = f_analysis.zones_requiring_followup

\* outcomes 98, 85, 65, 92: mean 85.0, one fully served, two partially
\* served, one needing follow-up
SelfTestExample ==
    [i \in 1..Len(f_outcomes) |-> f_outcomes[i].delivered_percentage]
          = <<980, 850, 650, 920>> =>
       /\ f_analysis.overall_success_rate = 850
       /\ f_analysis.zones_fully_served = <<1>>
       /\ f_analysis.zones_partially_served = <<2, 4>>
       /\ f_analysis.zones_requiring_followup = <<3>>

\* C18 as stated: the fallback analysis classes partition the zones by
\* delivered percentage (>= 95, >= 75 and < 95, < 75), the reallocation zones
\* are the follow-up zones, and the overall success rate is exactly the
\* arithmetic mean of the delivered percentages.
FallbackAnalysisExactMean ==
    f_op = "analyzed" =>
        /\ ClassesPartition
        /\ SelfTestExample
        /\ Len(f_outcomes) * f_analysis.overall_success_rate
              = SumDelivered(f_outcomes, Len(f_outcomes))

\* C18 amended: as above, with the overall success rate the arithmetic mean
\* rounded to one decimal.
FallbackAnalysisRoundedMean ==
    f_op = "analyzed" =>
        LET n == Len(f_outcomes)
            total == SumDelivered(f_outcomes, n)
        IN  /\ ClassesPartition
            /\ SelfTestExample
            /\ 2 * (n * f_analysis.overall_success_rate - total) <= n
            /\ 2 * (total - n * f_analysis.overall_success_rate) <= n

\* C18 witness: outcomes 98, 85, 65 analysed, their mean 82.66.. reported as
\* 82.7
FallbackAnalysisWitness ==
    /\ f_op = "analyzed"
    /\ [i \in 1..Len(f_outcomes) |-> f_outcomes[i].delivered_percentage]
          = <<980, 850, 650>>
    /\ f_analysis.overall_success_rate = 827
    /\ f_analysis.zones_requiring_followup = <<3>>

----------------------------------------------------------------------------
(* Claims on vehicle loading *)

\* the per-unit weights of the six kinds in half kilograms: food 0.5, water
\* 1.0, medical kit 2.0, shelter 15.0, blanket 1.5, hygiene kit 3.0
UnitWeights ==
    [k \in Kinds |->
        IF k = "food_packages" THEN 1
        ELSE IF k = "water_liters" THEN 2
        ELSE IF k = "medical_kits" THEN 4
        ELSE IF k = "shelter_materials" THEN 30
        ELSE IF k = "blankets" THEN 3
        ELSE 6]

\* the allocations of the zones on the route
OnRoute == SelectSeq(v_allocations, LAMBDA a : a.zone_id \in Ran(v_route.zones_sequence))

RECURSIVE RouteWeight(_, _)
\* quantity * per-unit weight summed over the first n allocations and their
\* kinds
RouteWeight(allocs, n) ==
    IF n = 0 THEN 0
    ELSE RouteWeight(allocs, n - 1)
         + SumOver([k \in DOMAIN allocs[n].qty |->
                       allocs[n].qty[k] * UnitWeights[k]],
                   DOMAIN allocs[n].qty)

\* C19: optimize_vehicle_loading reports as total weight the sum over the
\* route's zones and kinds of quantity * per-unit weight, with weight_status
\* OVERWEIGHT iff that exceeds 3000 kg (exactly 3000 kg is OK); it only
\* reports: every allocation on the route is loaded with its full quantities,
\* overweight or not.
LoadingWeight ==
    v_op = "loaded" =>
        /\ v_loading.total_weight_kg = RouteWeight(OnRoute, Len(OnRoute))
        /\ v_loading.weight_status = "OVERWEIGHT"
              <=> RouteWeight(OnRoute, Len(OnRoute)) > 6000
        /\ v_loading.weight_status = "OK"
              <=> RouteWeight(OnRoute, Len(OnRoute)) <= 6000
        /\ Len(v_loading.loading_sequence) = Len(OnRoute)
        /\ \A i \in 1..Len(OnRoute) :
              /\ v_loading.loading_sequence[i].zone_id = OnRoute[i].zone_id
              /\ v_loading.loading_sequence[i].items = OnRoute[i].qty

\* C19 witness: a route loaded to exactly 3000 kg by two of three allocated
\* zones, reported OK
LoadingWeightWitness ==
    /\ v_op = "loaded"
    /\ Len(v_allocations) = 3
    /\ Len(v_loading.loading_sequence) = 2
    /\ v_loading.total_weight_kg = 6000
    /\ v_loading.weight_status = "OK"

----------------------------------------------------------------------------
(* Claims on the cycle history *)

\* the history holds one record per completed cycle, in completion order
HistoryCount ==
    /\ Len(cycle_history) =
          IF cycles_started = 0 THEN 0
          ELSE cycles_started - 1 + (IF returned = Phases THEN 1 ELSE 0)
    /\ \A i \in 1..Len(cycle_history) : cycle_history[i].cycle_number = i

\* a step leaves the records in history as they are, in place, and adds at
\* most one at the end, which only the RECORD phase does
HistoryStep ==
    /\ IsPrefix(cycle_history, cycle_history')
    /\ Len(cycle_history') <= Len(cycle_history) + 1
    /\ cycle_history' # cycle_history =>
          /\ pc = "RECORD"
          /\ cycle_history'[Len(cycle_history')].cycle_number = cycle

\* C20: cycle_history is append-only and its records are never changed: each
\* completed cycle appends exactly one record at the end, no later operation
\* (further cycles, trend tracking, summary report, save_results) changes,
\* reorders or removes a record, and after n completed cycles the history
\* holds n records in completion order.
HistoryAppendOnly == []HistoryCount /\ [][HistoryStep]_vars

\* C20 witness: two cycles completed, the trend tracked and main returned 0
\* with both records in history
HistoryAppendOnlyWitness ==
    /\ pc = "exit"
    /\ exit_code = 0
    /\ trends.trend \in {"improving", "declining", "stable"}
    /\ Len(cycle_history) = 2
    /\ cycle_history[1].cycle_number = 1
    /\ cycle_history[2].cycle_number = 2


----------------------------------------------------------------------------
(* Kinds are rescaled independently *)

\* C21: after _validate_allocations, a kind whose proposed sum is at or under
\* its pool quantity keeps every zone's proposed quantity, whatever happens to
\* the other kinds of the same proposals.
KindsScaledIndependently ==
    a_op = "validate" =>
        \A k \in TotalsKeys(a_proposals, a_pool) :
            SumQty(a_proposals, k) <= a_pool[k] =>
                \A i \in 1..Len(a_proposals) :
                    k \in DOMAIN a_proposals[i].qty =>
                        a_result[i].qty[k] = a_proposals[i].qty[k]

\* food is overallocated and scaled down while water, within its pool,
\* is kept for both zones
KindsScaledIndependentlyWitness ==
    /\ a_op = "validate"
    /\ Len(a_proposals) = 2
    /\ \A i \in 1..2 : DOMAIN a_proposals[i].qty = {"food_packages", "water_liters"}
    /\ SumQty(a_proposals, "food_packages") > a_pool["food_packages"]
    /\ SumQty(a_proposals, "water_liters") <= a_pool["water_liters"]
    /\ SumQty(a_proposals, "water_liters") > 0
    /\ \E i \in 1..2 : a_result[i].qty["food_packages"] < a_proposals[i].qty["food_packages"]
    /\ \A i \in 1..2 : a_result[i].qty["water_liters"] = a_proposals[i].qty["water_liters"]


----------------------------------------------------------------------------
(* Shares of the fallback allocation *)

\* C22: for N ranked zones, _create_fallback_allocation gives the zone of
\* 0-based rank i, for each of the six resource kinds of the pool, the
\* quantity 0.9 * pool[kind] * (N - i) / (1 + 2 + ... + N) rounded down.
FallbackShareFormula ==
    a_op = "fallback" =>
        \A j \in 1..Len(a_result) : \A k \in Kinds :
            /\ k \in DOMAIN a_result[j].qty
            /\ a_result[j].qty[k] =
                   (9 * a_pool[k] * (Len(a_zones) - (j - 1)))
                       \div (10 * SumTo(1, Len(a_zones)))

\* C23: in every fallback allocation, for every kind and ranks i < j, the
\* zone of rank i gets at least as much as the zone of rank j (so the first
\* zone's quantity is the maximum).
FallbackMonotone ==
    a_op = "fallback" =>
        \A i, j \in 1..Len(a_result) :
            i < j => \A k \in DOMAIN a_result[i].qty :
                        a_result[i].qty[k] >= a_result[j].qty[k]

\* a fallback over three zones whose food shares strictly decrease with rank
FallbackMonotoneWitness ==
    /\ a_op = "fallback"
    /\ Len(a_result) = 3
    /\ a_result[1].qty["food_packages"] > a_result[2].qty["food_packages"]
    /\ a_result[2].qty["food_packages"] > a_result[3].qty["food_packages"]
    /\ a_result[3].qty["food_packages"] > 0


----------------------------------------------------------------------------
(* The validator only shrinks *)

NonNegative(allocs) ==
    \A i \in 1..Len(allocs) : \A k \in DOMAIN allocs[i].qty : allocs[i].qty[k] >= 0

\* C30: for non-negative proposals _validate_allocations returns the same
\* zones in the same order with the same non-resource fields; every resource
\* quantity is between 0 and the proposed one, and entries named like
\* operational capacities are returned as proposed.
ValidateOnlyShrinks ==
    (a_op = "validate" /\ NonNegative(a_proposals)) =>
        /\ Len(a_result) = Len(a_proposals)
        /\ \A i \in 1..Len(a_proposals) :
              /\ a_result[i].zone_id = a_proposals[i].zone_id
              /\ a_result[i].priority_score = a_proposals[i].priority_score
              /\ DOMAIN a_result[i].qty = DOMAIN a_proposals[i].qty
              /\ \A k \in DOMAIN a_proposals[i].qty :
                    IF k \in Capacities
                    THEN a_result[i].qty[k] = a_proposals[i].qty[k]
                    ELSE /\ 0 <= a_result[i].qty[k]
                         /\ a_result[i].qty[k] <= a_proposals[i].qty[k]

\* food is overallocated and shrunk for both zones while a budget_usd entry
\* whose sum exceeds the pool's budget_usd is returned as proposed
ValidateOnlyShrinksWitness ==
    /\ a_op = "validate"
    /\ NonNegative(a_proposals)
    /\ Len(a_proposals) = 2
    /\ \A i \in 1..2 : DOMAIN a_proposals[i].qty = {"food_packages", "budget_usd"}
    /\ a_proposals[1].qty["budget_usd"] + a_proposals[2].qty["budget_usd"]
           > a_pool["budget_usd"]
    /\ \A i \in 1..2 :
          /\ a_result[i].qty["food_packages"] < a_proposals[i].qty["food_packages"]
          /\ a_result[i].qty["food_packages"] > 0
          /\ a_result[i].qty["budget_usd"] = a_proposals[i].qty["budget_usd"]


----------------------------------------------------------------------------
(* Simulated outcomes *)

\* the multipliers 1.0 / 0.95 / 0.85 / 0.80 / 0.75, in hundredths
StatedMultiplier ==
    [c \in Challenges |->
        IF c = "none" THEN 100
        ELSE IF c = "weather_delay" THEN 95
        ELSE IF c = "road_conditions" THEN 85
        ELSE IF c = "security_concern" THEN 80
        ELSE 75]

\* one outcome per allocation handled so far, in allocation order with the
\* allocation's zone_id, one challenge tag of the vocabulary, a base within
\* [0.85, 1.0] and a percentage within [0, 100]
OutcomeShape ==
    /\ Len(m_outcomes) <= Len(m_allocations)
    /\ Len(m_draws) = Len(m_outcomes)
    /\ \A i \in 1..Len(m_outcomes) :
          /\ m_outcomes[i].zone_id = m_allocations[i].zone_id
          /\ m_outcomes[i].challenges \in Challenges
          /\ 8500 <= m_draws[i] /\ m_draws[i] <= 10000
          /\ 0 <= m_outcomes[i].delivered_percentage
          /\ m_outcomes[i].delivered_percentage <= 1000

\* C26 as stated: the outcomes have that shape and each delivered_percentage
\* equals multiplier(challenge) * base * 100.
DeliveredPercentageExact ==
    /\ OutcomeShape
    /\ \A i \in 1..Len(m_outcomes) :
          m_outcomes[i].delivered_percentage * 1000
              = StatedMultiplier[m_outcomes[i].challenges] * m_draws[i]

\* C26: the outcomes have that shape and each delivered_percentage is
\* multiplier(challenge) * base * 100 rounded to one decimal, i.e. within
\* 0.05 of it.
DeliveredPercentageRounded ==
    /\ OutcomeShape
    /\ \A i \in 1..Len(m_outcomes) :
          LET exact == StatedMultiplier[m_outcomes[i].challenges] * m_draws[i]
              shown == m_outcomes[i].delivered_percentage * 1000
          IN  shown - exact <= 500 /\ exact - shown <= 500

\* the loop has handled all three allocations, with a security concern and a
\* road problem among them and a percentage that is not the exact product
DeliveredPercentageWitness ==
    /\ Len(m_allocations) = 3
    /\ Len(m_outcomes) = 3
    /\ m_outcomes[1].challenges = "security_concern"
    /\ m_outcomes[2].challenges = "road_conditions"
    /\ m_outcomes[3].challenges = "none"
    /\ m_outcomes[1].delivered_percentage * 1000 # 80 * m_draws[1]
    /\ m_outcomes[1].delivered_percentage # m_outcomes[2].delivered_percentage


----------------------------------------------------------------------------
(* The pool snapshot within a cycle *)

\* C27: between SNAPSHOT and RECORD no phase of a cycle (assessment,
\* allocation by either path, route planning and scheduling, simulation,
\* analysis) changes a pool quantity, and the pool stored in the Cycle
\* Record is the pool obtained in SNAPSHOT.
PoolReadOnly ==
    [][/\ pc \in {"ASSESS", "ALLOCATE", "PLAN_LOGISTICS",
                   "SIMULATE_EXECUTION", "ANALYZE"} => resources' = resources
       /\ pc = "RECORD" =>
             /\ Len(cycle_history') = Len(cycle_history) + 1
             /\ cycle_history'[Len(cycle_history')].available_resources
                    = resources]_vars

\* a recorded cycle whose validated advisory allocations hand out water
\* from a pool that is stored as it was drawn
PoolReadOnlyWitness ==
    /\ Len(cycle_history) >= 1
    /\ cycle_history[1].available_resources \in OrchPools
    /\ SumQty(cycle_history[1].allocations, "water_liters") > 0
    /\ Len(cycle_history[1].actual_results) >= 1
    /\ path["ALLOCATE"] = "advisory"


----------------------------------------------------------------------------
(* Zones of a cycle on the fallback paths *)

RECURSIVE ScheduledZones(_, _)
\* the zone_id of the stops of the first n route schedules, in order
ScheduledZones(sched, n) ==
    IF n = 0 THEN <<>>
    ELSE ScheduledZones(sched, n - 1)
         \o [i \in 1..Len(sched[n].zones) |-> sched[n].zones[i].zone_id]

Distinct(seq) == \A i, j \in 1..Len(seq) : i # j => seq[i] # seq[j]

\* C29: when allocation and route planning both took their fallback path,
\* the allocated zones are the first min(N, max_zones) prioritized zones in
\* priority order, and the routes, the schedule and the outcomes each hold
\* exactly the allocated zones, each once.
FallbackZonesConsistent ==
    (/\ pc \in {"ANALYZE", "RECORD"}
     /\ path["ALLOCATE"] = "fallback"
     /\ path["PLAN_LOGISTICS"] = "fallback") =>
        LET ids == [i \in 1..Len(allocations) |-> allocations[i].zone_id]
        IN  /\ Len(ids) = Min(Len(prioritized_zones), max_zones_to_serve)
            /\ \A i \in 1..Len(ids) : ids[i] = prioritized_zones[i].zone_id
            /\ Distinct(ids)
            /\ ConcatSequences(delivery_plan.routes,
                               Len(delivery_plan.routes)) = ids
            /\ ScheduledZones(schedule, Len(schedule)) = ids
            /\ ZoneIds(actual_outcomes) = ids

\* a cycle on both fallback paths with more prioritized zones than
\* max_zones, simulated for the zones that were allocated
FallbackZonesWitness ==
    /\ pc = "RECORD"
    /\ path["ALLOCATE"] = "fallback"
    /\ path["PLAN_LOGISTICS"] = "fallback"
    /\ Len(prioritized_zones) > max_zones_to_serve
    /\ Len(allocations) = max_zones_to_serve
    /\ Len(actual_outcomes) = Len(allocations)
    /\ Len(schedule) = 1


----------------------------------------------------------------------------
(* Conservation in the recorded cycles *)

\* C28: every Cycle Record in cycle_history satisfies conservation against
\* its own pool: for every resource kind the sum of the record's allocations
\* is at most the record's available_resources, on the validated advisory
\* path as on the fallback path.
RecordConservation ==
    \A c \in 1..Len(cycle_history) :
        \A k \in Kinds :
            SumQty(cycle_history[c].allocations, k)
                <= cycle_history[c].available_resources[k]


----------------------------------------------------------------------------
(* What the trend tracker is given *)

\* C24: whenever the orchestrator is about to invoke the trend tracker for
\* the cycle it just completed, the prior-cycle list it passes holds exactly
\* the analyses of all earlier records of cycle_history, in order, whatever
\* calls were made on the orchestrator before.
TrendPriorIsHistory ==
    pc = "TREND" =>
        PriorAnalyses =
            [i \in 1..(Len(cycle_history) - 1) |-> cycle_history[i].analysis]

----------------------------------------------------------------------------
(* What SNAPSHOT derives *)

\* C25: every cycle's SNAPSHOT derives the pool and the zone snapshot anew:
\* once SNAPSHOT has returned in the n-th cycle run on the orchestrator, the
\* pool has been drawn n times and the zones have been generated n times.
SnapshotDerivesAnew ==
    (pc = "ASSESS" /\ cycles_started >= 1) =>
        /\ pools_drawn = cycles_started
        /\ zones_generated = cycles_started

====
